---- MODULE Spec2Model ----
(***************************************************************************)
(* The chat process of the python no-ui chat template                      *)
(* (src/new/templates/python/no-ui/chat/chat/src/lib.py): one long-lived   *)
(* actor per node that receives addressed messages, keeps a message        *)
(* archive per conversation, relays a Send for another node to that        *)
(* node's chat process and answers its caller.                             *)
(*                                                                         *)
(* The messaging runtime (receive, send_response,                          *)
(* send_and_await_response) is the environment: it delivers messages to    *)
(* an actor's inbox in some order and ends a blocking relay call with a    *)
(* response, a timeout or a transport error.                               *)
(***************************************************************************)
EXTENDS Naturals, Sequences, FiniteSets, TLC

VARIABLES
    started,          \* the nodes on which a chat actor runs
    inbox,            \* per actor: messages delivered and not yet returned by receive()
    pc,               \* per actor: where its control is
    message_archive,  \* per actor: the dict of init(), conversation -> list of entries
    awaiting,         \* per actor: the relay request it is blocked on
    handled,          \* per actor: every message receive() has returned, in order
    before,           \* per actor: message_archive when the last receive() returned
    events,           \* per actor: the calls made while handling the last message
    injected,         \* number of messages the environment has delivered
    budget,           \* number of messages the environment delivers at most
    address_string,   \* the argument of parse_address, a sequence of characters
    parsed,           \* what parse_address returned for it
    parse_pc          \* "call" before parse_address runs, "done" after it

parseVars == <<address_string, parsed, parse_pc>>

vars == <<started, inbox, pc, message_archive, awaiting, handled, before, events, injected,
          budget, address_string, parsed, parse_pc>>

(***************************************************************************)
(* Bounds of the model.                                                    *)
(***************************************************************************)
MaxInject == 3
MaxInjectLive == 2
MaxInjectPair == 2
MaxAddressLen == 8

Nodes == {"a", "b", "c"}
Texts == {"m1", "m2"}

\* Python's None, as a dict key or a JSON null: no node is called this.
None == "<None>"

(***************************************************************************)
(* Wire bodies: the JSON values the protocol carries, and one body that    *)
(* is not JSON.                                                            *)
(***************************************************************************)
Json(key, type, target, message, node, entries) ==
    [key |-> key, type |-> type, target |-> target, message |-> message,
     node |-> node, entries |-> entries]

NoBody == Json("", "none", "", "", "", <<>>)
\* {"Send": {"target": t, "message": m}}
SendBody(t, m) == Json("Send", "object", t, m, "", <<>>)
\* {"Send": null}: the acknowledgment, and also a Send request without payload
SendNull == Json("Send", "null", "", "", "", <<>>)
\* {"Send": {"message": m}} and {"Send": {"target": t}}: a key is missing
SendWithoutTarget(m) == Json("Send", "object without target", "", m, "", <<>>)
SendWithoutMessage(t) == Json("Send", "object without message", t, "", "", <<>>)
\* {"History": "<node>"}
HistoryBody(n) == Json("History", "string", "", "", n, <<>>)
\* {"History": null}
HistoryNull == Json("History", "null", "", "", None, <<>>)
\* {"History": [entries]}
HistoryResponse(es) == Json("History", "array", "", "", "", es)
\* {"Foo": 1}
FooBody == Json("Foo", "number", "", "", "", <<>>)
\* bytes that json.loads rejects
Garbage == Json("", "invalid", "", "", "", <<>>)

(***************************************************************************)
(* Address strings, character by character.                                *)
(***************************************************************************)
Chars == {"a", "b", "@", ":"}

AddressStrings == UNION {[1..n -> Chars] : n \in 0..MaxAddressLen}

\* as partition, splitting at the last occurrence of sep (str.rpartition's place)
RECURSIVE partition_last(_, _)
partition_last(s, sep) ==
    IF s = <<>> THEN <<<<>>, <<>>, <<>>>>
    ELSE LET r == partition_last(Tail(s), sep)
         IN  IF r[2] # <<>> THEN <<<<Head(s)>> \o r[1], r[2], r[3]>>
             ELSE IF Head(s) = sep THEN <<<<>>, <<sep>>, Tail(s)>>
             ELSE <<<<Head(s)>> \o r[1], <<>>, <<>>>>

\* str.partition(sep): (text before the first sep, sep, text after it), or
\* (s, "", "") when s holds no sep
RECURSIVE partition(_, _)
partition(s, sep) ==
    IF s = <<>> THEN <<<<>>, <<>>, <<>>>>
    ELSE IF Head(s) = sep THEN <<<<>>, <<sep>>, Tail(s)>>
    ELSE LET r == partition(Tail(s), sep)
         IN  <<<<Head(s)>> \o r[1], r[2], r[3]>>

parse_address(string) ==
    LET p1 == partition(string, "@")
        p2 == partition(p1[3], ":")
        p3 == partition(p2[3], ":")
        p4 == partition(p3[3], ":")
    IN  <<p1[1], p2[1], p3[1], p4[1]>>

\* the `our` of the chat process on node x: "<x>@chat:chat:template.os"
our(x) ==
    <<x, "@", "c", "h", "a", "t", ":", "c", "h", "a", "t", ":",
      "t", "e", "m", "p", "l", "a", "t", "e", ".", "o", "s">>

NotParsed == <<<<>>, <<>>, <<>>, <<>>>>

(***************************************************************************)
(* What receive() returns: Err, or (source, message) with message a        *)
(* request or a response.  rid > 0 marks a request relayed by the actor    *)
(* on node source as its rid-th handled message.                           *)
(***************************************************************************)
Message(kind, source, body, rid) ==
    [kind |-> kind, source |-> source, body |-> body, rid |-> rid]

\* a Send for this node comes from any node; a Send for another node comes from
\* this node's own processes (the send script) or from a third node
Senders(x, t) == IF t = x THEN Nodes ELSE {x, "c"}

Inputs(x) ==
    {Message("request", "c", b, 0) : b \in {HistoryBody(n) : n \in Nodes}}
        \cup {Message("request", "c", b, 0) : b \in {HistoryNull, SendNull, FooBody, Garbage}}
        \cup {Message("request", "c", b, 0) :
                 b \in {SendWithoutTarget("m1"), SendWithoutMessage("b")}}
        \cup {Message("response", "c", SendNull, 0), Message("error", "c", NoBody, 0)}
        \cup UNION {{Message("request", s, SendBody(t, m), 0) :
                        s \in Senders(x, t), m \in Texts} : t \in Nodes}

\* with several actors started, the environment delivers fewer kinds: a Send from
\* the node's own processes for another node, a Send from a third node for this
\* node, a History request for the other actor's node, a transport error
PairInputs(x) ==
    {Message("request", x, SendBody(t, m), 0) : t \in Nodes \ {x}, m \in Texts}
        \cup {Message("request", "c", SendBody(x, m), 0) : m \in Texts}
        \cup {Message("request", "c", HistoryBody(n), 0) : n \in Nodes \ {x, "c"}}
        \cup {Message("error", "c", NoBody, 0)}

Offered(x) == IF started = {x} THEN Inputs(x) ELSE PairInputs(x)

(***************************************************************************)
(* The calls an actor makes while handling one message.                    *)
(***************************************************************************)
Event(op, node, author, content, timeout, process, body) ==
    [op |-> op, node |-> node, author |-> author, content |-> content,
     timeout |-> timeout, process |-> process, body |-> body]

NoProcess == <<"", "", "">>
ChatProcess == <<"chat", "chat", "template.os">>
RelayTimeout == 5

\* print_to_terminal(0, f"{source.node}: {message_text}")
Printed(source, text) == Event("print", source, "", text, 0, NoProcess, NoBody)
\* print_to_terminal(0, f"chat: error: {e}")
Reported(why) == Event("report", "", "", why, 0, NoProcess, NoBody)
\* message_archive[conversation] gets {"author": author, "content": content}
Archived(conversation, author, content) ==
    Event("archive", conversation, author, content, 0, NoProcess, NoBody)
\* send_and_await_response(Address(target, process), Request(False, timeout, body, None, []), None)
Relayed(target, process, timeout, body) ==
    Event("relay", target, "", "", timeout, process, body)
\* send_response(Response(False, body, None, []), None), routed to the caller
Responded(caller, body) == Event("respond", caller, "", "", 0, NoProcess, body)

(***************************************************************************)
(* The archive.                                                            *)
(***************************************************************************)
EmptyArchive == [k \in {} |-> <<>>]

\* as add_to_archive, keeping only the latest message of a conversation
add_to_archive_latest(conversation, author, content, archive) ==
    LET message == [author |-> author, content |-> content]
    IN  [k \in DOMAIN archive \cup {conversation} |->
            IF k = conversation THEN <<message>> ELSE archive[k]]

\* as add_to_archive, with the new message put before the earlier ones
add_to_archive_front(conversation, author, content, archive) ==
    LET message == [author |-> author, content |-> content]
    IN  [k \in DOMAIN archive \cup {conversation} |->
            IF k # conversation THEN archive[k]
            ELSE IF k \in DOMAIN archive THEN <<message>> \o archive[k]
            ELSE <<message>>]

add_to_archive(conversation, author, content, archive) ==
    LET message == [author |-> author, content |-> content]
    IN  IF conversation \in DOMAIN archive
        THEN [archive EXCEPT ![conversation] = Append(@, message)]
        ELSE [k \in DOMAIN archive \cup {conversation} |->
                IF k = conversation THEN <<message>> ELSE archive[k]]

\* message_archive.get(node, [])
archive_get(archive, node) ==
    IF node \in DOMAIN archive THEN archive[node] ELSE <<>>

(***************************************************************************)
(* handle_message, by the branch it takes.                                 *)
(***************************************************************************)
\* our_node, _, _, _ = parse_address(our): the node the actor runs on
our_node(x) == x

\* json.loads(message.value.body.decode("utf-8")) raises on bytes that are not JSON
json_loads_raises(body) == body.type = "invalid"

\* as Branch, without the test target == our_node
Branch_without_self(x, msg) ==
    IF msg.kind = "error" THEN "got error"
    ELSE IF msg.kind = "response" THEN "unexpected Response"
    ELSE IF json_loads_raises(msg.body) THEN "decode error"
    ELSE IF msg.body.key = "Send"
         THEN IF msg.body.type # "object" THEN "bad Send" ELSE "remote Send"
    ELSE IF msg.body.key = "History" THEN "History"
    ELSE "Unexpected Request"

\* as Branch, with History as the final `else` instead of a tested key
Branch_history_else(x, msg) ==
    IF msg.kind = "error" THEN "got error"
    ELSE IF msg.kind = "response" THEN "unexpected Response"
    ELSE IF json_loads_raises(msg.body) THEN "decode error"
    ELSE IF msg.body.key = "Send"
         THEN IF msg.body.type # "object" THEN "bad Send"
              ELSE IF msg.body.target = our_node(x) THEN "self Send"
              ELSE "remote Send"
    ELSE "History"

\* as Branch, without the MessageResponse case: a response is decoded as a request
Branch_any_message(x, msg) ==
    IF msg.kind = "error" THEN "got error"
    ELSE IF json_loads_raises(msg.body) THEN "decode error"
    ELSE IF msg.body.key = "Send"
         THEN IF msg.body.type # "object" THEN "bad Send"
              ELSE IF msg.body.target = our_node(x) THEN "self Send"
              ELSE "remote Send"
    ELSE IF msg.body.key = "History" THEN "History"
    ELSE "Unexpected Request"

\* as Branch, reading body["Send"]["message"] only where the entry is archived
Branch_message_read_late(x, msg) ==
    IF msg.kind = "error" THEN "got error"
    ELSE IF msg.kind = "response" THEN "unexpected Response"
    ELSE IF json_loads_raises(msg.body) THEN "decode error"
    ELSE IF msg.body.key = "Send"
         THEN IF msg.body.type \notin {"object", "object without message"}
              THEN "bad Send"
              ELSE IF msg.body.target = our_node(x) THEN "self Send"
              ELSE "remote Send"
    ELSE IF msg.body.key = "History" THEN "History"
    ELSE "Unexpected Request"

\* the branch of handle_message a received message takes
Branch(x, msg) ==
    IF msg.kind = "error" THEN "got error"
    ELSE IF msg.kind = "response" THEN "unexpected Response"
    ELSE IF json_loads_raises(msg.body) THEN "decode error"
    ELSE IF msg.body.key = "Send"
         THEN IF msg.body.type # "object" THEN "bad Send"
              ELSE IF msg.body.target = our_node(x) THEN "self Send"
              ELSE "remote Send"
    ELSE IF msg.body.key = "History" THEN "History"
    ELSE "Unexpected Request"

\* the branches that end in `raise`, or in an exception of json or of a subscript
Raising ==
    {"got error", "unexpected Response", "decode error", "bad Send", "Unexpected Request"}

\* as self_send, with a send_response in the branch and another after it
self_send_twice(source, message_text, archive) ==
    [archive |-> add_to_archive(source, source, message_text, archive),
     events  |-> <<Printed(source, message_text),
                   Archived(source, source, message_text),
                   Responded(source, SendNull),
                   Responded(source, SendNull)>>]

\* target == our_node: print, archive under the sender's node, acknowledge
self_send(source, message_text, archive) ==
    [archive |-> add_to_archive(source, source, message_text, archive),
     events  |-> <<Printed(source, message_text),
                   Archived(source, source, message_text),
                   Responded(source, SendNull)>>]

\* target != our_node: the blocking call to the target's chat process
relay_request(target, body) ==
    Relayed(target, ChatProcess, RelayTimeout, body)

\* as during_relay, for a request sent without awaiting its response
during_relay_not_awaited == "WaitingForMessage"

\* send_and_await_response does not return until the relay has ended
during_relay == "AwaitingRelay"

\* as remote_send_finish, raising when the relay did not end in a response
remote_send_finish_checked(x, source, target, message_text, archive, result) ==
    IF result = "response"
    THEN [archive |-> add_to_archive(target, our_node(x), message_text, archive),
          events  |-> <<Archived(target, our_node(x), message_text),
                        Responded(source, SendNull)>>,
          raised  |-> FALSE]
    ELSE [archive |-> archive,
          events  |-> <<Reported("relay failed")>>,
          raised  |-> TRUE]

\* as remote_send_finish, archiving only a Send whose relay was answered
remote_send_finish_on_success(x, source, target, message_text, archive, result) ==
    IF result = "response"
    THEN [archive |-> add_to_archive(target, our_node(x), message_text, archive),
          events  |-> <<Archived(target, our_node(x), message_text),
                        Responded(source, SendNull)>>,
          raised  |-> FALSE]
    ELSE [archive |-> archive,
          events  |-> <<Responded(source, SendNull)>>,
          raised  |-> FALSE]

\* as remote_send_finish, acknowledging before the entry is archived
remote_send_finish_ack_first(x, source, target, message_text, archive, result) ==
    [archive |-> add_to_archive(target, our_node(x), message_text, archive),
     events  |-> <<Responded(source, SendNull),
                   Archived(target, our_node(x), message_text)>>,
     raised  |-> FALSE]

\* as remote_send_finish, archiving the submitting node as the author
remote_send_finish_by_source(x, source, target, message_text, archive, result) ==
    [archive |-> add_to_archive(target, source, message_text, archive),
     events  |-> <<Archived(target, source, message_text),
                   Responded(source, SendNull)>>,
     raised  |-> FALSE]

\* after send_and_await_response has returned result, which the handler drops:
\* archive under the target, acknowledge
remote_send_finish(x, source, target, message_text, archive, result) ==
    [archive |-> add_to_archive(target, our_node(x), message_text, archive),
     events  |-> <<Archived(target, our_node(x), message_text),
                   Responded(source, SendNull)>>,
     raised  |-> FALSE]

\* as history_reply, with message_archive[node] instead of .get(node, [])
history_reply_subscript(source, node, archive) ==
    IF node \in DOMAIN archive
    THEN [archive |-> archive,
          events  |-> <<Responded(source, HistoryResponse(archive[node]))>>]
    ELSE [archive |-> archive, events |-> <<Reported("KeyError")>>]

\* as history_reply, with .setdefault(node, []) instead of .get(node, [])
history_reply_setdefault(source, node, archive) ==
    [archive |-> IF node \in DOMAIN archive
                 THEN archive
                 ELSE [k \in DOMAIN archive \cup {node} |->
                          IF k = node THEN <<>> ELSE archive[k]],
     events  |-> <<Responded(source, HistoryResponse(archive_get(archive, node)))>>]

\* "History" in body: answer with the conversation's entries; .get(node, [])
\* reads the dict and leaves it as it is
history_reply(source, node, archive) ==
    [archive |-> archive,
     events  |-> <<Responded(source, HistoryResponse(archive_get(archive, node)))>>]

\* as loop_after, without the try/except: the exception ends init
loop_after_uncaught(raised) ==
    IF raised THEN "Terminated" ELSE "WaitingForMessage"

\* init's loop: `while True: try: ... except Exception as e: print_to_terminal(...)`
loop_after(raised) == "WaitingForMessage"

(***************************************************************************)
(* The runtime's correlation of a relayed request with its response.       *)
(***************************************************************************)
\* crossed: the relay was in flight, unanswered, while its target had one in
\* flight, unanswered, to this actor
NoRelay == [to |-> "", rid |-> 0, replied |-> FALSE, result |-> "none", crossed |-> FALSE]

\* send_response while handling msg: the relaying actor still blocked on msg gets it
route_response(msg) ==
    IF /\ msg.rid > 0
       /\ msg.source \in started
       /\ pc[msg.source] = "AwaitingRelay"
       /\ awaiting[msg.source].rid = msg.rid
    THEN [awaiting EXCEPT ![msg.source].replied = TRUE]
    ELSE awaiting

(***************************************************************************)
(* Initial state: init() has run up to its loop on every started node.     *)
(***************************************************************************)
InitActors ==
    /\ inbox = [x \in Nodes |-> <<>>]
    /\ pc = [x \in Nodes |-> IF x \in started THEN "WaitingForMessage" ELSE "NotStarted"]
    /\ message_archive = [x \in Nodes |-> EmptyArchive]
    /\ awaiting = [x \in Nodes |-> NoRelay]
    /\ handled = [x \in Nodes |-> <<>>]
    /\ before = [x \in Nodes |-> EmptyArchive]
    /\ events = [x \in Nodes |-> <<>>]
    /\ injected = 0

\* init() of the chat process on node "a" has parsed its address
Init ==
    /\ started = {"a"}
    /\ budget = MaxInject
    /\ InitActors
    /\ address_string = our("a")
    /\ parsed = parse_address(our("a"))
    /\ parse_pc = "done"

(***************************************************************************)
(* The environment delivers a message to an actor, whatever the actor is   *)
(* doing.                                                                  *)
(***************************************************************************)
Deliver(x) ==
    /\ x \in started
    /\ injected < budget
    /\ \E msg \in Offered(x) :
          inbox' = [inbox EXCEPT ![x] = Append(@, msg)]
    /\ injected' = injected + 1
    /\ UNCHANGED <<started, pc, message_archive, awaiting, handled, before, events>>
    /\ UNCHANGED <<budget, parseVars>>

(***************************************************************************)
(* receive() returns the head of the inbox; the rest of handle_message     *)
(* runs up to its return, its raise, or its blocking relay call.           *)
(***************************************************************************)
Received(x, branch) ==
    /\ pc[x] = "WaitingForMessage"
    /\ inbox[x] # <<>>
    /\ Branch(x, Head(inbox[x])) = branch
    /\ handled' = [handled EXCEPT ![x] = Append(@, Head(inbox[x]))]
    /\ before' = [before EXCEPT ![x] = message_archive[x]]

\* every `raise` of handle_message, caught and printed by init's loop
HandleRaise(x) ==
    /\ \E branch \in Raising :
          /\ Received(x, branch)
          /\ events' = [events EXCEPT ![x] = <<Reported(branch)>>]
    /\ inbox' = [inbox EXCEPT ![x] = Tail(@)]
    /\ pc' = [pc EXCEPT ![x] = loop_after(TRUE)]
    /\ awaiting' = [awaiting EXCEPT ![x] = NoRelay]
    /\ UNCHANGED <<started, message_archive, injected>>
    /\ UNCHANGED <<budget, parseVars>>

HandleSelfSend(x) ==
    /\ Received(x, "self Send")
    /\ LET msg == Head(inbox[x])
           done == self_send(msg.source, msg.body.message, message_archive[x])
       IN  /\ message_archive' = [message_archive EXCEPT ![x] = done.archive]
           /\ events' = [events EXCEPT ![x] = done.events]
           /\ awaiting' = [route_response(msg) EXCEPT ![x] = NoRelay]
    /\ inbox' = [inbox EXCEPT ![x] = Tail(@)]
    /\ pc' = [pc EXCEPT ![x] = loop_after(FALSE)]
    /\ UNCHANGED <<started, injected>>
    /\ UNCHANGED <<budget, parseVars>>

HandleHistory(x) ==
    /\ Received(x, "History")
    /\ LET msg == Head(inbox[x])
           done == history_reply(msg.source, msg.body.node, message_archive[x])
       IN  /\ message_archive' = [message_archive EXCEPT ![x] = done.archive]
           /\ events' = [events EXCEPT ![x] = done.events]
           /\ awaiting' = [route_response(msg) EXCEPT ![x] = NoRelay]
    /\ inbox' = [inbox EXCEPT ![x] = Tail(@)]
    /\ pc' = [pc EXCEPT ![x] = loop_after(FALSE)]
    /\ UNCHANGED <<started, injected>>
    /\ UNCHANGED <<budget, parseVars>>

\* the remote branch up to the blocking call: the request goes out, the actor waits
HandleRemoteSend(x) ==
    /\ Received(x, "remote Send")
    /\ LET msg == Head(inbox[x])
           target == msg.body.target
           rid == Len(handled[x]) + 1
           request == relay_request(target, msg.body)
       IN  /\ events' = [events EXCEPT ![x] = <<request>>]
           /\ LET crossed == /\ awaiting[request.node].rid > 0
                             /\ awaiting[request.node].result = "none"
                             /\ awaiting[request.node].to = our_node(x)
                             /\ ~awaiting[request.node].replied
              IN  awaiting' = [awaiting EXCEPT
                                 ![request.node].crossed = @ \/ crossed,
                                 ![x] = [to |-> request.node, rid |-> rid,
                                         replied |-> FALSE, result |-> "none",
                                         crossed |-> crossed]]
           /\ inbox' = IF request.node \in started
                        THEN [[inbox EXCEPT ![x] = Tail(@)] EXCEPT
                                 ![request.node] =
                                     Append(@, Message("request", our_node(x),
                                                       request.body, rid))]
                        ELSE [inbox EXCEPT ![x] = Tail(@)]
    /\ pc' = [pc EXCEPT ![x] = during_relay]
    /\ UNCHANGED <<started, message_archive, injected>>
    /\ UNCHANGED <<budget, parseVars>>

\* a relay call whose timeout never expires
relay_outcomes_unbounded == {"response"}

\* how send_and_await_response(..., 5) can end
relay_outcomes == {"response", "timeout", "error"}

\* send_and_await_response returns (response, timeout or transport error, as a
\* value the handler ignores); handle_message runs on to its return
RelayReturn(x) ==
    /\ pc[x] = "AwaitingRelay"
    /\ \E result \in relay_outcomes :
          /\ (result = "response" /\ awaiting[x].to \in started) => awaiting[x].replied
          /\ awaiting' = [awaiting EXCEPT ![x].result = result]
          /\ LET msg == handled[x][Len(handled[x])]
                 done == remote_send_finish(x, msg.source, msg.body.target,
                                            msg.body.message, message_archive[x], result)
             IN  /\ message_archive' = [message_archive EXCEPT ![x] = done.archive]
                 /\ events' = [events EXCEPT ![x] = @ \o done.events]
                 /\ pc' = [pc EXCEPT ![x] = loop_after(done.raised)]
    /\ UNCHANGED <<started, inbox, handled, before, injected>>
    /\ UNCHANGED <<budget, parseVars>>

Next ==
    \E x \in Nodes :
        \/ Deliver(x)
        \/ HandleRaise(x)
        \/ HandleSelfSend(x)
        \/ HandleHistory(x)
        \/ HandleRemoteSend(x)
        \/ RelayReturn(x)

Spec == Init /\ [][Next]_vars

\* the chat process on node "a", with fewer deliveries
InitLive ==
    /\ started = {"a"}
    /\ budget = MaxInjectLive
    /\ InitActors
    /\ address_string = our("a")
    /\ parsed = parse_address(our("a"))
    /\ parse_pc = "done"

\* every relay call ends: the runtime answers it or its timeout of 5 expires
SpecLive == InitLive /\ [][Next]_vars /\ \A x \in Nodes : WF_vars(RelayReturn(x))

(***************************************************************************)
(* Two chat processes, on nodes "a" and "b", that can relay to each other. *)
(***************************************************************************)
InitPair ==
    /\ started = {"a", "b"}
    /\ budget = MaxInjectPair
    /\ InitActors
    /\ address_string = our("a")
    /\ parsed = parse_address(our("a"))
    /\ parse_pc = "done"

\* every relay call ends, and a waiting actor with a message in its inbox
\* gets to receive it
SpecPair ==
    /\ InitPair /\ [][Next]_vars
    /\ \A x \in Nodes :
          /\ WF_vars(RelayReturn(x))
          /\ WF_vars(HandleRaise(x) \/ HandleSelfSend(x) \/ HandleHistory(x)
                        \/ HandleRemoteSend(x))

(***************************************************************************)
(* parse_address on its own: any address string, then the call.            *)
(***************************************************************************)
InitParse ==
    /\ started = {}
    /\ budget = 0
    /\ InitActors
    /\ address_string \in AddressStrings
    /\ parsed = NotParsed
    /\ parse_pc = "call"

ParseAddress ==
    /\ parse_pc = "call"
    /\ parsed' = parse_address(address_string)
    /\ parse_pc' = "done"
    /\ UNCHANGED <<started, inbox, pc, message_archive, awaiting, handled, before,
                   events, injected, budget, address_string>>

NextParse == ParseAddress

SpecParse == InitParse /\ [][NextParse]_vars

(***************************************************************************)
(* Vocabulary of the properties.                                           *)
(***************************************************************************)
\* the message an actor is handling, or has handled last
Last(x) == handled[x][Len(handled[x])]
\* the messages an actor handled before that one
Earlier(x) == SubSeq(handled[x], 1, Len(handled[x]) - 1)

Handling(x) == x \in started /\ handled[x] # <<>>
\* the handling of the last message has run to its end
Finished(x) == Handling(x) /\ pc[x] = "WaitingForMessage"

Calls(x, op) == SelectSeq(events[x], LAMBDA e : e.op = op)

IsSend(msg) == msg.kind = "request" /\ msg.body.key = "Send" /\ msg.body.type = "object"
IsHistory(msg) == msg.kind = "request" /\ msg.body.key = "History"

Entry(author, content) == [author |-> author, content |-> content]

\* new is old with the entries es added at the end of conversation key, and
\* nothing else changed
Extended(old, new, key, es) ==
    /\ DOMAIN new = DOMAIN old \cup {key}
    /\ \A k \in DOMAIN new :
          new[k] = (IF k \in DOMAIN old THEN old[k] ELSE <<>>)
                       \o (IF k = key THEN es ELSE <<>>)

IsPrefix(s, t) == Len(s) <= Len(t) /\ SubSeq(t, 1, Len(s)) = s

\* the actor has issued a relay request that has not ended
InFlight(x) == awaiting[x].rid > 0 /\ awaiting[x].result = "none"

(***************************************************************************)
(* C1. A Send for another node Q, from any source: exactly one relay       *)
(* request, to the chat process on Q with timeout 5 and the inbound body;  *)
(* once the relay has ended in a response, a timeout or a transport        *)
(* error, exactly one entry (our_node, M) is appended under Q and exactly  *)
(* one response {"Send": null} goes to the caller, the same in all three   *)
(* cases.                                                                  *)
(***************************************************************************)
C1_RemoteSend ==
    \A x \in started :
        (Handling(x) /\ IsSend(Last(x)) /\ Last(x).body.target # x) =>
            LET msg == Last(x)
                Q == msg.body.target
                M == msg.body.message
            IN  /\ Calls(x, "relay") = <<Relayed(Q, <<"chat", "chat", "template.os">>, 5,
                                                 msg.body)>>
                /\ pc[x] \in {"AwaitingRelay", "WaitingForMessage"}
                /\ pc[x] = "AwaitingRelay" =>
                      /\ message_archive[x] = before[x]
                      /\ Calls(x, "respond") = <<>>
                /\ pc[x] = "WaitingForMessage" =>
                      /\ awaiting[x].result \in {"response", "timeout", "error"}
                      /\ Extended(before[x], message_archive[x], Q, <<Entry(x, M)>>)
                      /\ Calls(x, "respond") = <<Responded(msg.source, SendNull)>>

\* a Send for another node has been acknowledged although its relay timed out
C1_Witness ==
    \E x \in started :
        /\ Finished(x) /\ IsSend(Last(x)) /\ Last(x).body.target # x
        /\ Last(x).source # x
        /\ awaiting[x].result = "timeout"
        /\ Calls(x, "respond") = <<Responded(Last(x).source, SendNull)>>
        /\ Len(message_archive[x][Last(x).body.target]) = 2

(***************************************************************************)
(* C2. A Send for this node from a source on node P (P may be this node):  *)
(* exactly one entry (P, M) is appended under P, one response              *)
(* {"Send": null} is sent, and no relay request is issued.                 *)
(***************************************************************************)
C2_SelfSend ==
    \A x \in started :
        (Handling(x) /\ IsSend(Last(x)) /\ Last(x).body.target = x) =>
            LET msg == Last(x)
                P == msg.source
                M == msg.body.message
            IN  /\ pc[x] = "WaitingForMessage"
                /\ ~InFlight(x)
                /\ Calls(x, "relay") = <<>>
                /\ Extended(before[x], message_archive[x], P, <<Entry(P, M)>>)
                /\ Calls(x, "respond") = <<Responded(P, SendNull)>>

\* a Send for this node from another node has been handled after one from this node
C2_Witness ==
    \E x \in started :
        /\ Finished(x) /\ Len(handled[x]) = 2
        /\ IsSend(handled[x][1]) /\ handled[x][1].body.target = x
        /\ handled[x][1].source = x
        /\ IsSend(Last(x)) /\ Last(x).body.target = x /\ Last(x).source # x
        /\ DOMAIN message_archive[x] = {x, Last(x).source}
        /\ Calls(x, "relay") = <<>>

(***************************************************************************)
(* C3. A History(C) request is answered with exactly the entries that the  *)
(* Sends handled before it contributed to conversation C, in the order     *)
(* they were received: (our_node, M) for a Send with target C # our_node,  *)
(* (C, M) for a Send with target our_node received from node C.            *)
(***************************************************************************)
RECURSIVE Contributed(_, _, _)
Contributed(x, C, msgs) ==
    IF msgs = <<>> THEN <<>>
    ELSE LET m == Head(msgs)
             mine == IF IsSend(m) /\ m.body.target = C /\ C # x
                         THEN <<Entry(x, m.body.message)>>
                     ELSE IF IsSend(m) /\ m.body.target = x /\ m.source = C
                         THEN <<Entry(C, m.body.message)>>
                     ELSE <<>>
         IN  mine \o Contributed(x, C, Tail(msgs))

C3_HistoryReturnsSends ==
    \A x \in started :
        (Finished(x) /\ IsHistory(Last(x)) /\ Last(x).body.type = "string") =>
            Calls(x, "respond") =
                <<Responded(Last(x).source,
                            HistoryResponse(Contributed(x, Last(x).body.node, Earlier(x))))>>

\* History(C) has returned, in order, one entry written by this node and one by C
C3_Witness ==
    \E x \in started :
        /\ Finished(x) /\ IsHistory(Last(x)) /\ Last(x).body.type = "string"
        /\ Len(Calls(x, "respond")) = 1
        /\ LET es == Calls(x, "respond")[1].body.entries
               C == Last(x).body.node
           IN  /\ C # x
               /\ Len(es) = 2
               /\ es[1].author = x /\ es[2].author = C
               /\ es[1].content # es[2].content

(***************************************************************************)
(* C4. The archive is append-only over every step: each conversation key   *)
(* stays, and its sequence before the step is a prefix of its sequence     *)
(* after the step.                                                         *)
(***************************************************************************)
C4_AppendOnly ==
    [][\A x \in Nodes :
          \A k \in DOMAIN message_archive[x] :
              /\ k \in DOMAIN message_archive'[x]
              /\ IsPrefix(message_archive[x][k], message_archive'[x][k])]_vars

\* a conversation holds two entries, and the step after them handled a transport error
C4_Witness ==
    \E x \in started :
        /\ Finished(x) /\ Last(x).kind = "error"
        /\ \E k \in DOMAIN message_archive[x] : Len(message_archive[x][k]) = 2
        /\ message_archive[x] = before[x]

(***************************************************************************)
(* C5. A History(N) request for a conversation N without entries is        *)
(* answered with {"History": []}: a response is sent and nothing is        *)
(* reported as an error.                                                   *)
(***************************************************************************)
C5_EmptyHistory ==
    \A x \in started :
        (/\ Handling(x) /\ IsHistory(Last(x)) /\ Last(x).body.type = "string"
         /\ \/ Last(x).body.node \notin DOMAIN message_archive[x]
            \/ message_archive[x][Last(x).body.node] = <<>>) =>
            /\ pc[x] = "WaitingForMessage"
            /\ events[x] = <<Responded(Last(x).source, HistoryResponse(<<>>))>>

\* the first message of an actor was a History request
C5_Witness ==
    \E x \in started :
        /\ Finished(x) /\ Len(handled[x]) = 1
        /\ IsHistory(Last(x)) /\ Last(x).body.type = "string"
        /\ message_archive[x] = EmptyArchive
        /\ Calls(x, "respond") # <<>>

(***************************************************************************)
(* C6. A request whose body is JSON with neither a Send nor a History key  *)
(* causes no send_response, no relay request and no change of the          *)
(* archive; the error is reported and the actor is at its next receive.    *)
(***************************************************************************)
Unrecognized(msg) ==
    /\ msg.kind = "request"
    /\ msg.body.type # "invalid"
    /\ msg.body.key \notin {"Send", "History"}

\* the actor can take the next message of its inbox
CanReceive(x) ==
    ENABLED (\/ HandleRaise(x) \/ HandleSelfSend(x)
             \/ HandleHistory(x) \/ HandleRemoteSend(x))

C6_UnrecognizedRequest ==
    \A x \in started :
        (Handling(x) /\ Unrecognized(Last(x))) =>
            /\ Calls(x, "respond") = <<>>
            /\ Calls(x, "relay") = <<>>
            /\ message_archive[x] = before[x]
            /\ Calls(x, "report") = <<Reported("Unexpected Request")>>
            /\ pc[x] = "WaitingForMessage"
            /\ ~InFlight(x)
            /\ inbox[x] # <<>> => CanReceive(x)

\* {"Foo": 1} has been handled by an actor with an archive and a message waiting
C6_Witness ==
    \E x \in started :
        /\ Finished(x) /\ Last(x).kind = "request" /\ Last(x).body = FooBody
        /\ message_archive[x] # EmptyArchive
        /\ inbox[x] # <<>>
        /\ events[x] = <<Reported("Unexpected Request")>>

(***************************************************************************)
(* C7. send_response is called at most once per received message: once     *)
(* for a well-formed Send or History request, never for a top-level        *)
(* response, a transport error, or an unrecognized or malformed request.   *)
(***************************************************************************)
WellFormed(msg) == IsSend(msg) \/ (IsHistory(msg) /\ msg.body.type \in {"string", "null"})

C7_OneResponse ==
    \A x \in started :
        Handling(x) =>
            /\ Len(Calls(x, "respond")) <= 1
            /\ Finished(x) =>
                  Len(Calls(x, "respond")) = IF WellFormed(Last(x)) THEN 1 ELSE 0
            /\ (pc[x] # "WaitingForMessage") => WellFormed(Last(x))

\* the three kinds of message have been handled: a Send answered once, a
\* History answered once, a malformed Send not answered
C7_Witness ==
    \E x \in started :
        /\ Finished(x) /\ Len(handled[x]) = 3
        /\ IsHistory(handled[x][1])
        /\ handled[x][2].kind = "request" /\ handled[x][2].body = SendNull
        /\ IsSend(Last(x)) /\ Last(x).body.target # x
        /\ Len(Calls(x, "respond")) = 1

(***************************************************************************)
(* C8. When receive() returns a transport error the actor reports it and   *)
(* waits for the next message: it has not terminated, the archive is       *)
(* unchanged, no response and no relay request was sent, and it handles    *)
(* the messages delivered afterwards.                                      *)
(***************************************************************************)
C8_TransportError ==
    \A x \in started :
        /\ pc[x] \in {"WaitingForMessage", "AwaitingRelay"}
        /\ (Handling(x) /\ Last(x).kind = "error") =>
              /\ pc[x] = "WaitingForMessage"
              /\ events[x] = <<Reported("got error")>>
              /\ message_archive[x] = before[x]
              /\ ~InFlight(x)
              /\ inbox[x] # <<>> => CanReceive(x)

\* after a transport error the actor has handled a Send for it
C8_Witness ==
    \E x \in started :
        /\ Finished(x) /\ Len(handled[x]) = 3
        /\ handled[x][2].kind = "error"
        /\ IsSend(Last(x)) /\ Last(x).body.target = x
        /\ Len(message_archive[x][Last(x).source]) = 2

(***************************************************************************)
(* C9. When receive() returns a response the actor reports it and waits    *)
(* for the next message: no response, no relay request, archive unchanged. *)
(***************************************************************************)
C9_TopLevelResponse ==
    \A x \in started :
        (Handling(x) /\ Last(x).kind = "response") =>
            /\ pc[x] = "WaitingForMessage"
            /\ events[x] = <<Reported("unexpected Response")>>
            /\ message_archive[x] = before[x]
            /\ ~InFlight(x)
            /\ inbox[x] # <<>> => CanReceive(x)

\* a response has been received by an actor with an archive
C9_Witness ==
    \E x \in started :
        /\ Finished(x) /\ Last(x).kind = "response"
        /\ message_archive[x] # EmptyArchive
        /\ events[x] = <<Reported("unexpected Response")>>

(***************************************************************************)
(* C10. While an actor has a relay request in flight it takes no other     *)
(* step: no receive, no response, no archive change until the relay        *)
(* returns; at most one relay is in flight, and the messages arriving      *)
(* meanwhile are queued behind those already waiting.                      *)
(***************************************************************************)
C10_BlockedDuringRelay ==
    [][\A x \in started :
          InFlight(x) =>
              /\ handled'[x] = handled[x]
              /\ IsPrefix(inbox[x], inbox'[x])
              /\ Len(Calls(x, "relay")) = 1
              /\ InFlight(x)' =>
                    /\ awaiting'[x].rid = awaiting[x].rid
                    /\ awaiting'[x].to = awaiting[x].to
                    /\ events'[x] = events[x]
                    /\ message_archive'[x] = message_archive[x]
                    /\ pc'[x] = pc[x]
              /\ ~InFlight(x)' =>
                    /\ inbox'[x] = inbox[x]
                    /\ awaiting'[x].rid = awaiting[x].rid]_vars

\* two messages were delivered to an actor while its relay was in flight
C10_Witness ==
    \E x \in started :
        /\ InFlight(x)
        /\ pc[x] = "AwaitingRelay"
        /\ Len(inbox[x]) = 2
        /\ inbox[x][1] # inbox[x][2]

(***************************************************************************)
(* C11. parse_address returns, for every string, (node, process, package,  *)
(* publisher): node is the text before the first "@" (the whole string     *)
(* when it holds none), and process, package, publisher are the first      *)
(* three ":"-separated segments of the text after that "@", empty when     *)
(* absent.                                                                 *)
(***************************************************************************)
Places(s, ch) == {i \in 1..Len(s) : s[i] = ch}

\* the k-th place of ch in s, or Len(s) + 1 when s holds fewer than k
Place(s, ch, k) ==
    IF Cardinality(Places(s, ch)) < k THEN Len(s) + 1
    ELSE CHOOSE i \in Places(s, ch) :
            Cardinality({j \in Places(s, ch) : j < i}) = k - 1

TextBefore(s, ch) == SubSeq(s, 1, Place(s, ch, 1) - 1)
TextAfter(s, ch) == SubSeq(s, Place(s, ch, 1) + 1, Len(s))

\* the k-th of the segments that ch separates in s, empty when s has fewer
Segment(s, ch, k) ==
    IF k > Cardinality(Places(s, ch)) + 1 THEN <<>>
    ELSE SubSeq(s, (IF k = 1 THEN 0 ELSE Place(s, ch, k - 1)) + 1, Place(s, ch, k) - 1)

Addressed(s) ==
    <<TextBefore(s, "@"),
      Segment(TextAfter(s, "@"), ":", 1),
      Segment(TextAfter(s, "@"), ":", 2),
      Segment(TextAfter(s, "@"), ":", 3)>>

Alice ==
    <<"a", "l", "i", "c", "e", "@", "c", "h", "a", "t", ":", "c", "h", "a", "t", ":",
      "t", "e", "m", "p", "l", "a", "t", "e", ".", "o", "s">>

C11_ParseAddress ==
    /\ parse_pc = "done" => parsed = Addressed(address_string)
    /\ parse_address(Alice) =
          <<<<"a", "l", "i", "c", "e">>, <<"c", "h", "a", "t">>, <<"c", "h", "a", "t">>,
            <<"t", "e", "m", "p", "l", "a", "t", "e", ".", "o", "s">>>>
    /\ parse_address(<<"b", "o", "b">>) = <<<<"b", "o", "b">>, <<>>, <<>>, <<>>>>

\* an address with a second "@" and a fourth segment has been parsed
C11_Witness ==
    /\ parse_pc = "done"
    /\ address_string = <<"a", "@", "b", ":", "@", ":", "b", ":">>
    /\ parsed = <<<<"a">>, <<"b">>, <<"@">>, <<"b">>>>

(***************************************************************************)
(* C12. On a Send the acknowledgment is the last call: {"Send": null} is   *)
(* sent after the entry has been appended and, for another node's Send,    *)
(* after the relay call has ended.  So a History request handled later     *)
(* for that conversation holds the entry.                                  *)
(***************************************************************************)
\* the conversation and the author of the entry a Send makes at actor x
Conversation(x, msg) == IF msg.body.target = x THEN msg.source ELSE msg.body.target
Author(x, msg) == IF msg.body.target = x THEN msg.source ELSE x

InSeq(e, seq) == \E i \in 1..Len(seq) : seq[i] = e

C12_AckLast ==
    \A x \in started :
        /\ (Handling(x) /\ IsSend(Last(x)) /\ Calls(x, "respond") # <<>>) =>
              LET msg == Last(x)
                  n == Len(events[x])
                  entry == Entry(Author(x, msg), msg.body.message)
              IN  /\ events[x][n] = Responded(msg.source, SendNull)
                  /\ events[x][n - 1] =
                        Archived(Conversation(x, msg), Author(x, msg), msg.body.message)
                  /\ Conversation(x, msg) \in DOMAIN message_archive[x]
                  /\ InSeq(entry, message_archive[x][Conversation(x, msg)])
                  /\ msg.body.target # x =>
                        /\ events[x][1].op = "relay"
                        /\ n = 3
                        /\ ~InFlight(x)
                        /\ awaiting[x].result \in {"response", "timeout", "error"}
        /\ (Finished(x) /\ IsHistory(Last(x)) /\ Last(x).body.type = "string") =>
              \A i \in 1..Len(Earlier(x)) :
                  (IsSend(handled[x][i])
                      /\ Conversation(x, handled[x][i]) = Last(x).body.node) =>
                      /\ Len(Calls(x, "respond")) = 1
                      /\ InSeq(Entry(Author(x, handled[x][i]), handled[x][i].body.message),
                               Calls(x, "respond")[1].body.entries)

\* a History request has been answered after an acknowledged Send for that node
C12_Witness ==
    \E x \in started :
        /\ Finished(x) /\ Len(handled[x]) = 2
        /\ IsSend(handled[x][1]) /\ handled[x][1].body.target # x
        /\ IsHistory(Last(x)) /\ Last(x).body.node = handled[x][1].body.target
        /\ Len(Calls(x, "respond")) = 1
        /\ Calls(x, "respond")[1].body.entries =
              <<Entry(x, handled[x][1].body.message)>>

(***************************************************************************)
(* C13, as first stated: while the relay request of a Send for node Q is   *)
(* in flight, the entry (our_node, M) is already under Q in the archive.   *)
(***************************************************************************)
C13_ArchivedWhileInFlight ==
    \A x \in started :
        (InFlight(x) /\ Handling(x) /\ IsSend(Last(x))) =>
            /\ Last(x).body.target \in DOMAIN message_archive[x]
            /\ Len(message_archive[x][Last(x).body.target]) =
                  Len(Contributed(x, Last(x).body.target, handled[x]))

(***************************************************************************)
(* C13, amended: the entry (our_node, M) is appended under Q when the      *)
(* relay call has ended, whatever its outcome.  While the relay request    *)
(* is in flight the archive is as it was when the Send was received; once  *)
(* the relay has ended in a response, a timeout or an error the entry is   *)
(* there.                                                                  *)
(***************************************************************************)
C13_ArchivedAfterRelay ==
    \A x \in started :
        (Handling(x) /\ IsSend(Last(x)) /\ Last(x).body.target # x) =>
            LET Q == Last(x).body.target
                M == Last(x).body.message
            IN  /\ InFlight(x) =>
                      /\ message_archive[x] = before[x]
                      /\ Calls(x, "archive") = <<>>
                /\ ~InFlight(x) =>
                      /\ awaiting[x].result \in {"response", "timeout", "error"}
                      /\ Calls(x, "archive") = <<Archived(Q, x, M)>>
                      /\ Extended(before[x], message_archive[x], Q, <<Entry(x, M)>>)

\* a Send for another node has been archived after its relay ended in an error
C13_Witness ==
    \E x \in started :
        /\ Finished(x) /\ IsSend(Last(x)) /\ Last(x).body.target # x
        /\ awaiting[x].result = "error"
        /\ message_archive[x] # before[x]
        /\ before[x] = EmptyArchive

(***************************************************************************)
(* C14. The loop has no terminal state: whatever was received (a Send, a   *)
(* History, a response, a transport error, an undecodable or unrecognized  *)
(* body), the actor is waiting for the next message again, at once or,     *)
(* for a relayed Send, when the relay call has ended; no error ends the    *)
(* actor.                                                                  *)
(***************************************************************************)
C14_NoTerminalState ==
    /\ [](\A x \in started :
            /\ pc[x] \in {"WaitingForMessage", "AwaitingRelay"}
            /\ (Handling(x) /\ pc[x] = "AwaitingRelay") =>
                  (IsSend(Last(x)) /\ Last(x).body.target # x /\ InFlight(x)))
    /\ \A x \in Nodes :
          (pc[x] = "AwaitingRelay") ~> (pc[x] = "WaitingForMessage")

\* after a transport error, a relayed Send whose relay timed out has left the
\* actor waiting for the next message
C14_Witness ==
    \E x \in started :
        /\ Finished(x) /\ Len(handled[x]) = 2
        /\ handled[x][1].kind = "error"
        /\ IsSend(Last(x)) /\ Last(x).body.target # x
        /\ awaiting[x].result = "timeout"

(***************************************************************************)
(* Two actors with relays in flight to each other.                         *)
(***************************************************************************)
Cross(x, y) ==
    /\ x # y
    /\ InFlight(x) /\ awaiting[x].to = y /\ ~awaiting[x].replied
    /\ InFlight(y) /\ awaiting[y].to = x /\ ~awaiting[y].replied

\* the request that the relay of x put into its target's inbox
RelayMessage(x) == Message("request", x, Last(x).body, awaiting[x].rid)

\* a relay carries the position of its Send among the messages its actor received
Rids == 1..MaxInjectPair

(***************************************************************************)
(* C15, as first stated, in the part that fails: of two actors that relay  *)
(* to each other at the same time, both relays end by timeout; so neither  *)
(* ends in a response.                                                     *)
(***************************************************************************)
C15_BothRelaysTimeOut ==
    \A x \in started :
        (awaiting[x].crossed /\ ~InFlight(x)) => awaiting[x].result # "response"

(***************************************************************************)
(* C15, amended: two actors that relay to each other at the same time do   *)
(* not deadlock.  While both are blocked neither answers the other, each   *)
(* holds the other's request in its inbox, and the relay that ends first   *)
(* ends without a response; the other ends by timeout too, or by a         *)
(* response when the first actor has handled its queued request by then.   *)
(* Both callers receive {"Send": null}, both actors get back to waiting,   *)
(* and each handles the other's request, so each forwarded message is      *)
(* archived at its target.                                                 *)
(***************************************************************************)
C15_CrossedRelays ==
    /\ [](\A x \in started : \A y \in started :
            Cross(x, y) =>
                /\ awaiting[x].crossed
                /\ InSeq(RelayMessage(x), inbox[y])
                /\ ENABLED RelayReturn(x))
    /\ [][\A x \in started : \A y \in started :
            (Cross(x, y) /\ ~InFlight(x)') =>
                awaiting'[x].result \in {"timeout", "error"}]_vars
    /\ [](\A x \in started :
            (awaiting[x].crossed /\ Handling(x) /\ ~InFlight(x)) =>
                /\ pc[x] = "WaitingForMessage"
                /\ Calls(x, "respond") = <<Responded(Last(x).source, SendNull)>>)
    /\ \A x \in {"a", "b"} : \A y \in {"a", "b"} \ {x} : \A r \in Rids :
          (Cross(x, y) /\ awaiting[x].rid = r)
              ~> (/\ pc[x] = "WaitingForMessage" \/ awaiting[x].rid # r
                  /\ \E i \in 1..Len(handled[y]) :
                        /\ handled[y][i] =
                               Message("request", x,
                                       SendBody(y, handled[y][i].body.message), r)
                        /\ x \in DOMAIN message_archive[y]
                        /\ InSeq(Entry(x, handled[y][i].body.message),
                                 message_archive[y][x]))

\* of two crossed relays the second has ended in a response: its target had
\* timed out and handled the queued request
C15_Witness ==
    \E x \in started : \E y \in started :
        /\ x # y
        /\ awaiting[y].crossed /\ awaiting[y].result = "response"
        /\ Finished(y)
        /\ Calls(y, "respond") = <<Responded(Last(y).source, SendNull)>>
        /\ Finished(x) /\ Last(x).rid > 0 /\ Last(x).source = y
        /\ y \in DOMAIN message_archive[x]
        /\ x \in DOMAIN message_archive[y]

(***************************************************************************)
(* C16. A relayed Send is not relayed again: the request actor A relays    *)
(* for Send{target=B, message=M} names B's own node, so B takes the        *)
(* self-addressed branch, issues no relay and appends (A, M) under A,      *)
(* while A appends (A, M) under B.                                         *)
(***************************************************************************)
Relayed_in(msg) == msg.rid > 0

C16_NoRelayChain ==
    \A y \in started :
        /\ \A i \in 1..Len(inbox[y]) :
              Relayed_in(inbox[y][i]) =>
                  /\ IsSend(inbox[y][i]) /\ inbox[y][i].body.target = y
                  /\ inbox[y][i].source \in started \ {y}
        /\ (Handling(y) /\ Relayed_in(Last(y))) =>
              LET A == Last(y).source
                  M == Last(y).body.message
              IN  /\ IsSend(Last(y)) /\ Last(y).body.target = y /\ A # y
                  /\ Calls(y, "relay") = <<>>
                  /\ pc[y] = "WaitingForMessage"
                  /\ Extended(before[y], message_archive[y], A, <<Entry(A, M)>>)
        /\ (Finished(y) /\ IsSend(Last(y)) /\ Last(y).body.target # y) =>
              /\ ~Relayed_in(Last(y))
              /\ Extended(before[y], message_archive[y], Last(y).body.target,
                          <<Entry(y, Last(y).body.message)>>)

\* B has answered A's relay, and both hold (A, M): A under B, B under A
C16_Witness ==
    \E A \in started : \E B \in started :
        /\ A # B
        /\ Finished(A) /\ IsSend(Last(A)) /\ Last(A).body.target = B
        /\ awaiting[A].result = "response"
        /\ Finished(B) /\ Relayed_in(Last(B)) /\ Last(B).source = A
        /\ message_archive[A][B] = <<Entry(A, Last(A).body.message)>>
        /\ message_archive[B][A] = <<Entry(A, Last(A).body.message)>>

(***************************************************************************)
(* C17. Every archive entry under conversation key K has author K or       *)
(* our_node.  An entry gets author K only from a self-addressed Send       *)
(* received from node K; every entry made by a Send to remote target K has *)
(* author our_node, also when a third node submitted that Send.            *)
(***************************************************************************)
\* the entries under K that were added since the message in hand was received
Added(x, K) ==
    IF K \in DOMAIN before[x]
    THEN SubSeq(message_archive[x][K], Len(before[x][K]) + 1,
                Len(message_archive[x][K]))
    ELSE message_archive[x][K]

C17_AuthorIsKeyOrOurNode ==
    \A x \in started :
        /\ \A K \in DOMAIN message_archive[x] :
              \A i \in 1..Len(message_archive[x][K]) :
                  message_archive[x][K][i].author \in {K, x}
        /\ Handling(x) =>
              \A K \in DOMAIN message_archive[x] :
                  \A i \in 1..Len(Added(x, K)) :
                      LET e == Added(x, K)[i]
                      IN  /\ IsSend(Last(x))
                          /\ e.content = Last(x).body.message
                          /\ IF Last(x).body.target = x
                             THEN e.author = K /\ Last(x).source = K
                             ELSE e.author = x /\ Last(x).body.target = K
        /\ (Finished(x) /\ IsSend(Last(x))) =>
              Added(x, Conversation(x, Last(x))) # <<>>

\* a Send to remote b that third node c submitted is archived under b with
\* author a, after an entry of author b under the same key
C17_Witness ==
    /\ Finished("a")
    /\ IsSend(Last("a")) /\ Last("a").source = "c" /\ Last("a").body.target = "b"
    /\ "b" \in DOMAIN message_archive["a"]
    /\ Len(message_archive["a"]["b"]) = 2
    /\ message_archive["a"]["b"][1].author = "b"
    /\ message_archive["a"]["b"][2].author = "a"

(***************************************************************************)
(* C18. Handling a History request leaves the archive unchanged: no        *)
(* conversation key is added (not even an empty one for an unknown node),  *)
(* no entry is appended and no relay is issued; and of two History(N)      *)
(* requests handled one right after the other, the second is answered      *)
(* with the same sequence as the first.                                    *)
(***************************************************************************)
C18_HistoryReadsOnly ==
    /\ [](\A x \in started :
            (Handling(x) /\ IsHistory(Last(x))) =>
                /\ pc[x] = "WaitingForMessage"
                /\ message_archive[x] = before[x]
                /\ DOMAIN message_archive[x] = DOMAIN before[x]
                /\ Calls(x, "archive") = <<>>
                /\ Calls(x, "relay") = <<>>)
    /\ [][\A x \in started :
            (/\ Handling(x) /\ IsHistory(Last(x))
             /\ Len(handled'[x]) = Len(handled[x]) + 1
             /\ IsHistory(Last(x)')
             /\ Last(x)'.body.node = Last(x).body.node) =>
                /\ message_archive'[x] = before[x]
                /\ Len(Calls(x, "respond")) = 1
                /\ Len(Calls(x, "respond")') = 1
                /\ Calls(x, "respond")'[1].body = Calls(x, "respond")[1].body]_vars

\* History(b) has been answered twice in a row with the one entry of b's
\* conversation
C18_Witness ==
    \E x \in started :
        /\ Finished(x) /\ Len(handled[x]) = 3
        /\ IsHistory(handled[x][2]) /\ IsHistory(handled[x][3])
        /\ handled[x][2].body.node = "b" /\ handled[x][3].body.node = "b"
        /\ DOMAIN message_archive[x] = {"b"}
        /\ Len(message_archive[x]["b"]) = 1
        /\ Calls(x, "respond") =
              <<Responded(Last(x).source, HistoryResponse(message_archive[x]["b"]))>>

(***************************************************************************)
(* C19. A Send request whose payload is malformed (null under "Send", or   *)
(* an object without "target" or without "message") has no partial effect: *)
(* it fails before a relay is issued or an entry appended, so the archive  *)
(* is unchanged, no relay request and no response is sent, and the actor   *)
(* goes on with the next message.                                          *)
(***************************************************************************)
MalformedSend(msg) ==
    /\ msg.kind = "request"
    /\ msg.body.key = "Send"
    /\ msg.body.type \in {"null", "object without target", "object without message"}

C19_MalformedSend ==
    \A x \in started :
        (Handling(x) /\ MalformedSend(Last(x))) =>
            /\ message_archive[x] = before[x]
            /\ Calls(x, "relay") = <<>>
            /\ Calls(x, "archive") = <<>>
            /\ Calls(x, "respond") = <<>>
            /\ Len(Calls(x, "report")) = 1
            /\ ~InFlight(x)
            /\ pc[x] = "WaitingForMessage"
            /\ (inbox[x] # <<>>) => CanReceive(x)

\* after a Send that names remote b and has no message, the actor has handled
\* its next message, a well-formed Send
C19_Witness ==
    \E x \in started :
        /\ Len(handled[x]) = 2
        /\ handled[x][1].body = SendWithoutMessage("b")
        /\ Finished(x) /\ IsSend(Last(x))
        /\ Calls(x, "respond") # <<>>
        /\ DOMAIN message_archive[x] = {Conversation(x, Last(x))}

(***************************************************************************)
(* C20. A History request with an absent target, {"History": null}, is     *)
(* answered with the full archive, the mapping of every conversation key   *)
(* to its sequence of entries: so the answer holds every entry of every    *)
(* conversation.                                                           *)
(***************************************************************************)
HistoryOfNone(msg) == IsHistory(msg) /\ msg.body.type = "null"

C20_FullArchive ==
    \A x \in started :
        (Finished(x) /\ HistoryOfNone(Last(x))) =>
            /\ Len(Calls(x, "respond")) = 1
            /\ \A K \in DOMAIN message_archive[x] :
                  \A i \in 1..Len(message_archive[x][K]) :
                      InSeq(message_archive[x][K][i], Calls(x, "respond")[1].body.entries)

(***************************************************************************)
(* C20, amended: {"History": null} is answered with {"History": []}.  None *)
(* is no conversation key, so .get(None, []) gives the empty list whatever *)
(* the archive holds; the archive stays as it was.                         *)
(***************************************************************************)
C20_AnsweredEmpty ==
    \A x \in started :
        (Finished(x) /\ HistoryOfNone(Last(x))) =>
            /\ events[x] = <<Responded(Last(x).source, HistoryResponse(<<>>))>>
            /\ message_archive[x] = before[x]

\* with one conversation archived, {"History": null} has been answered with []
C20_Witness ==
    \E x \in started :
        /\ Finished(x) /\ HistoryOfNone(Last(x))
        /\ \E K \in DOMAIN message_archive[x] : message_archive[x][K] # <<>>
        /\ Calls(x, "respond") = <<Responded(Last(x).source, HistoryResponse(<<>>))>>

====
